---- MODULE Spec2Model ----
(***************************************************************************)
(* Model of the dro face-corpus utilities:                                 *)
(*   - dro/utils/vggface.py : image_uid_from_fp, get_key_from_fp,          *)
(*                            make_annotations_df                          *)
(*   - scripts/detect_faces.py : extract_face, main                        *)
(*   - dro/training/models.py : add_classification_block                   *)
(* Strings are sequences of one-character strings.  Regular expressions    *)
(* are matched by a backtracking matcher with Python's greedy priority.    *)
(***************************************************************************)
EXTENDS Integers, Sequences, FiniteSets, TLC

VARIABLES
    \* --- key resolvers (vggface.py) ---
    fp,            \* the path handed to the resolvers
    uid,           \* outcome of image_uid_from_fp(fp), or Unset
    key,           \* outcome of get_key_from_fp(fp), or Unset
    \* --- cropping pipeline (detect_faces.py main) ---
    out_dir,       \* FLAGS.out_dir
    image_ids,     \* result of glob.glob, in discovery order
    scene,         \* per image: what loading/detecting/cropping it does
    pc,            \* position of main: "start", "loop", "done", "raised"
    idx,           \* number of images the for loop has finished with
    written,       \* set of file paths saved so far
    log,           \* lines printed so far
    exc,           \* the exception that left main, if pc = "raised"
    \* --- annotation aggregation (vggface.py make_annotations_df) ---
    disk,          \* directory -> file name -> file content (lines)
    anno_dir,      \* the argument of make_annotations_df
    flag_anno_dir, \* FLAGS.anno_dir
    listing,       \* os.listdir(anno_dir), in the order it was returned
    apc,           \* "loop", "done", "raised"
    ai,            \* number of listing entries the loop has finished with
    annotations,   \* the list of per-file frames built so far
    result,        \* the returned table or the raised exception
    \* --- classification block (models.py) ---
    fc_sizes,      \* argument fc_sizes
    activation,    \* argument activation
    mpc,           \* "flatten", "hidden", "final", "done", "raised"
    mi,            \* number of hidden widths handled
    net,           \* layers appended on top of the base layer, in order
    mexc           \* exception raised by add_classification_block, or "none"

keyVars   == <<fp, uid, key>>
pipeVars  == <<out_dir, image_ids, scene, pc, idx, written, log, exc>>
annoVars  == <<disk, anno_dir, flag_anno_dir, listing, apc, ai, annotations, result>>
modelVars == <<fc_sizes, activation, mpc, mi, net, mexc>>
vars      == <<keyVars, pipeVars, annoVars, modelVars>>

----------------------------------------------------------------------------
(* Strings *)

RECURSIVE Flatten(_)
Flatten(ss) == IF ss = <<>> THEN <<>> ELSE Head(ss) \o Flatten(Tail(ss))

JPG    == <<"j", "p", "g">>
TXT    == <<"t", "x", "t">>
SLASH  == <<"/">>
DOT    == <<".">>
LF     == <<"\n">>

StartsWith(s, pre) ==
    Len(s) >= Len(pre) /\ SubSeq(s, 1, Len(pre)) = pre

EndsWith(s, suf) ==
    Len(s) >= Len(suf) /\ SubSeq(s, Len(s) - Len(suf) + 1, Len(s)) = suf

----------------------------------------------------------------------------
(* Python's re.match: anchored at the start, not at the end; every         *)
(* quantifier greedy, with backtracking; "." matches anything but newline. *)
(* A pattern is a sequence of items [t, c]:                                *)
(*   "lit"   the character c          "any"    .                           *)
(*   "star"  .*                       "digits" \d+                         *)
(*   "open" / "close"  the parentheses of group 1                          *)

Lit(c)  == [t |-> "lit",    c |-> c]
AnyCh   == [t |-> "any",    c |-> ""]
Star    == [t |-> "star",   c |-> ""]
Digits  == [t |-> "digits", c |-> ""]
Open    == [t |-> "open",   c |-> ""]
Close   == [t |-> "close",  c |-> ""]

NoMatch == [ok |-> FALSE, gs |-> 0, ge |-> 0]

IsDot(c)   == c # "\n"
IsDigit(c) == c \in {"0", "1", "2", "3", "4", "5", "6", "7", "8", "9"}

\* Length of the longest run of characters from pos on that satisfy the class.
RECURSIVE DotRun(_, _)
DotRun(s, pos) ==
    IF pos <= Len(s) /\ IsDot(s[pos]) THEN 1 + DotRun(s, pos + 1) ELSE 0

RECURSIVE DigitRun(_, _)
DigitRun(s, pos) ==
    IF pos <= Len(s) /\ IsDigit(s[pos]) THEN 1 + DigitRun(s, pos + 1) ELSE 0

RECURSIVE MatchFrom(_, _, _, _, _, _)
RECURSIVE Repeat(_, _, _, _, _, _, _, _)

\* Match items i.. of re against s from position pos; gs, ge are the bounds
\* of group 1 recorded so far.
MatchFrom(re, i, s, pos, gs, ge) ==
    IF i > Len(re) THEN [ok |-> TRUE, gs |-> gs, ge |-> ge]
    ELSE LET it == re[i] IN
      CASE it.t = "open"   -> MatchFrom(re, i + 1, s, pos, pos, ge)
        [] it.t = "close"  -> MatchFrom(re, i + 1, s, pos, gs, pos)
        [] it.t = "lit"    -> IF pos <= Len(s) /\ s[pos] = it.c
                              THEN MatchFrom(re, i + 1, s, pos + 1, gs, ge)
                              ELSE NoMatch
        [] it.t = "any"    -> IF pos <= Len(s) /\ IsDot(s[pos])
                              THEN MatchFrom(re, i + 1, s, pos + 1, gs, ge)
                              ELSE NoMatch
        [] it.t = "star"   -> Repeat(re, i, s, pos, gs, ge, DotRun(s, pos), 0)
        [] it.t = "digits" -> Repeat(re, i, s, pos, gs, ge, DigitRun(s, pos), 1)

\* A greedy quantifier: try k repetitions, then k-1, ... down to least.
Repeat(re, i, s, pos, gs, ge, k, least) ==
    IF k < least THEN NoMatch
    ELSE LET r == MatchFrom(re, i + 1, s, pos + k, gs, ge) IN
         IF r.ok THEN r ELSE Repeat(re, i, s, pos, gs, ge, k - 1, least)

re_match(re, s) == MatchFrom(re, 1, s, 1, 1, 1)

group1(m, s) == SubSeq(s, m.gs, m.ge - 1)

----------------------------------------------------------------------------
(* Python values: a string, None, or a raised exception *)

Unset        == [kind |-> "unset", val |-> <<>>]
None         == [kind |-> "None",  val |-> <<>>]
StrVal(s)    == [kind |-> "str",   val |-> s]
Raise(e)     == [kind |-> "raise", val |-> e]

----------------------------------------------------------------------------
(* Key resolvers *)

\* The pattern with the first separator left outside the group.
UID_RE_SlashOutside ==
    <<Star, Lit("/"), Open, Star, Lit("/"), Star, Lit("."),
      Lit("j"), Lit("p"), Lit("g"), Close>>

\* '.*(.*/.*/.*\.jpg)'
UID_RE == <<Star, Open, Star, Lit("/"), Star, Lit("/"), Star, Lit("."),
            Lit("j"), Lit("p"), Lit("g"), Close>>

\* ".*/(.*/.*.jpg)"
KEY_RE == <<Star, Lit("/"), Open, Star, Lit("/"), Star, AnyCh,
            Lit("j"), Lit("p"), Lit("g"), Close>>

\* The else branch formats the warning with the name fp, which is bound
\* nowhere in that scope: evaluating it raises NameError before the return.
image_uid_from_fp(f) ==
    LET image_id == re_match(UID_RE, f) IN
    IF image_id.ok THEN StrVal(group1(image_id, f))
    ELSE Raise(<<"NameError">>)

\* The bare except turns the AttributeError of None.group into None.
get_key_from_fp(p) ==
    LET m == re_match(KEY_RE, p) IN
    IF m.ok THEN StrVal(group1(m, p)) ELSE None

InitKeyVars ==
    /\ fp = <<>>
    /\ uid = Unset
    /\ key = Unset

----------------------------------------------------------------------------
(* scripts/detect_faces.py *)

\* What loading, detecting and cropping one image file does:
\*   "unreadable"  Image.open raises OSError
\*   "noface"      face_detector.detect_faces returns []
\*   "degenerate"  the first box gives a slice PIL rejects with ValueError
\*   "face"        the first box gives a face that is cropped and resized
Scenes == {"unreadable", "noface", "degenerate", "face"}

\* The outcome of extract_face(filename) when the file shows scene sc.
\* results[0] on the empty list raises IndexError.
extract_face(sc) ==
    CASE sc = "unreadable" -> Raise(<<"OSError">>)
      [] sc = "noface"     -> Raise(<<"IndexError">>)
      [] sc = "degenerate" -> Raise(<<"ValueError">>)
      [] sc = "face"       -> StrVal(<<"image">>)

\* out_fp = out_dir + image_id
out_fp_of(od, image_id) == od \o image_id

\* assert not out_dir.endswith("/") ; glob ; assert len(image_ids) > 0
Preconditions ==
    /\ pc = "start"
    /\ IF EndsWith(out_dir, SLASH) \/ Len(image_ids) = 0
       THEN pc' = "raised" /\ exc' = <<"AssertionError">>
       ELSE pc' = "loop" /\ exc' = exc
    /\ UNCHANGED <<out_dir, image_ids, scene, idx, written, log>>
    /\ UNCHANGED <<keyVars, annoVars, modelVars>>

\* One iteration of "for f in image_ids", the try block and its handler.
LoopBody ==
    /\ pc = "loop"
    /\ idx < Len(image_ids)
    /\ LET f        == image_ids[idx + 1]
           face_im  == extract_face(scene[idx + 1])
           m        == re_match(UID_RE, f)
           image_id == group1(m, f)
           out_fp   == out_fp_of(out_dir, image_id)
       IN
       IF face_im.kind = "raise"
       THEN IF face_im.val = <<"ValueError">>
            THEN \* except ValueError: warn and go on
                 /\ log' = log \o << [msg |-> "warning", arg |-> f],
                                       [msg |-> "error", arg |-> face_im.val] >>
                 /\ idx' = idx + 1
                 /\ UNCHANGED <<pc, exc, written>>
            ELSE \* any other exception leaves main
                 /\ pc' = "raised"
                 /\ exc' = face_im.val
                 /\ UNCHANGED <<idx, written, log>>
       ELSE IF ~m.ok
            THEN \* None.group(1)
                 /\ pc' = "raised"
                 /\ exc' = <<"AttributeError">>
                 /\ UNCHANGED <<idx, written, log>>
            ELSE /\ log' = log \o << [msg |-> "writing", arg |-> out_fp] >>
                 /\ written' = written \cup {out_fp}
                 /\ idx' = idx + 1
                 /\ UNCHANGED <<pc, exc>>
    /\ UNCHANGED <<out_dir, image_ids, scene>>
    /\ UNCHANGED <<keyVars, annoVars, modelVars>>

\* The for loop is exhausted and main returns.
LoopExit ==
    /\ pc = "loop"
    /\ idx = Len(image_ids)
    /\ pc' = "done"
    /\ UNCHANGED <<out_dir, image_ids, scene, idx, written, log, exc>>
    /\ UNCHANGED <<keyVars, annoVars, modelVars>>

main == Preconditions \/ LoopBody \/ LoopExit

\* FLAGS.img_dir and the .jpg files below it that the recursive glob of
\* img_dir + '**/*.jpg' finds.
img_dir == <<"d", "/">>

Discoverable ==
    { img_dir \o rel : rel \in {
        <<"f">> \o DOT \o JPG,
        <<"a", "/", "f">> \o DOT \o JPG,
        <<"a", "/", "g">> \o DOT \o JPG,
        <<"b", "/", "f">> \o DOT \o JPG,
        <<"a", "/", "b", "/", "f">> \o DOT \o JPG,
        \* a directory whose name holds a line break: a/f.jpg<LF>/g.jpg
        <<"a", "/", "f">> \o DOT \o JPG \o LF \o <<"/", "g">> \o DOT \o JPG } }

OutDirs == { <<"o">>, <<"/", "t", "/", "o">>, <<"o", "/">> }

MaxImages == 3

Injective(q) == \A i, j \in DOMAIN q : q[i] = q[j] => i = j

ImageLists ==
    UNION { { q \in [1..n -> Discoverable] : Injective(q) } : n \in 0..MaxImages }

InitPipeVars ==
    /\ out_dir = <<>>
    /\ image_ids = <<>>
    /\ scene = <<>>
    /\ pc = "idle"
    /\ idx = 0
    /\ written = {}
    /\ log = <<>>
    /\ exc = <<>>

----------------------------------------------------------------------------
(* dro/utils/vggface.py : make_annotations_df *)

\* A file is a sequence of tab-separated lines <<index, value>>.  A frame is
\* [columns, index, data]: data[r] is the row of r, one entry per column.
NaN == "NaN"

TableVal(t) == [kind |-> "table", val |-> t]

\* pd.read_csv(path, delimiter="\t", index_col=0) of file f of a directory:
\* the first line is taken as the header, the first column as the index.
read_csv(dir, f) ==
    IF f \notin DOMAIN dir THEN Raise(<<"FileNotFoundError">>)
    ELSE LET lines == dir[f]
             rows  == { lines[i] : i \in 2..Len(lines) }
         IN TableVal([ columns |-> << lines[1][2] >>,
                       index   |-> { r[1] : r \in rows },
                       data    |-> [ k \in { r[1] : r \in rows } |->
                                       << (CHOOSE r \in rows : r[1] = k)[2] >> ] ])

\* (not f.startswith(".")) and f.endswith(".txt")
selected(f) == ~StartsWith(f, DOT) /\ EndsWith(f, DOT \o TXT)

\* "\d+-(.*)\.txt"
LABEL_RE == <<Digits, Lit("-"), Open, Star, Close, Lit("."),
              Lit("t"), Lit("x"), Lit("t")>>

\* The label taken from whatever follows the last "-", never failing.
label_lenient(f) ==
    LET m == re_match(<<Star, Lit("-"), Open, Star, Close, Lit("."),
                        Lit("t"), Lit("x"), Lit("t")>>, f)
    IN IF m.ok THEN StrVal(group1(m, f)) ELSE StrVal(f)

\* re.match("\d+-(.*)\.txt", f).group(1): the failed match is None, and
\* None.group raises AttributeError.
label_of(f) ==
    LET m == re_match(LABEL_RE, f) IN
    IF m.ok THEN StrVal(group1(m, f)) ELSE Raise(<<"AttributeError">>)

RECURSIVE Repl(_, _)
Repl(x, n) == IF n = 0 THEN <<>> ELSE <<x>> \o Repl(x, n - 1)

\* pd.concat(frames, axis=1): outer join on the index, columns side by side.
concat(frames) ==
    IF frames = <<>> THEN Raise(<<"ValueError">>)
    ELSE LET index == UNION { frames[j].index : j \in DOMAIN frames }
             row(k) == Flatten([ j \in DOMAIN frames |->
                          IF k \in frames[j].index
                          THEN frames[j].data[k]
                          ELSE Repl(NaN, Len(frames[j].columns)) ])
         IN TableVal([ columns |-> Flatten([ j \in DOMAIN frames |-> frames[j].columns ]),
                       index   |-> index,
                       data    |-> [ k \in index |-> row(k) ] ])

\* One iteration of "for f in os.listdir(anno_dir)".  The file is read from
\* FLAGS.anno_dir, not from the directory that was listed.
AnnoLoopBody ==
    /\ apc = "loop"
    /\ ai < Len(listing)
    /\ LET f     == listing[ai + 1]
           label == label_of(f)
           attributes_df == read_csv(disk[flag_anno_dir], f)
       IN
       IF ~selected(f)
       THEN /\ ai' = ai + 1
            /\ UNCHANGED <<apc, annotations, result>>
       ELSE IF label.kind = "raise"
       THEN /\ apc' = "raised"
            /\ result' = label
            /\ UNCHANGED <<ai, annotations>>
       ELSE IF attributes_df.kind = "raise"
       THEN /\ apc' = "raised"
            /\ result' = attributes_df
            /\ UNCHANGED <<ai, annotations>>
       ELSE /\ annotations' = Append(annotations,
                 [attributes_df.val EXCEPT !.columns = << label.val >>])
            /\ ai' = ai + 1
            /\ UNCHANGED <<apc, result>>
    /\ UNCHANGED <<disk, anno_dir, flag_anno_dir, listing>>
    /\ UNCHANGED <<keyVars, pipeVars, modelVars>>

\* return pd.concat(annotations, axis=1)
AnnoReturn ==
    /\ apc = "loop"
    /\ ai = Len(listing)
    /\ result' = concat(annotations)
    /\ apc' = IF concat(annotations).kind = "raise" THEN "raised" ELSE "done"
    /\ UNCHANGED <<disk, anno_dir, flag_anno_dir, listing, ai, annotations>>
    /\ UNCHANGED <<keyVars, pipeVars, modelVars>>

make_annotations_df == AnnoLoopBody \/ AnnoReturn

InitAnnoVars ==
    /\ disk = <<>>
    /\ anno_dir = ""
    /\ flag_anno_dir = ""
    /\ listing = <<>>
    /\ apc = "idle"
    /\ ai = 0
    /\ annotations = <<>>
    /\ result = Unset

----------------------------------------------------------------------------
(* dro/training/models.py : add_classification_block *)

FlattenLayer     == [layer |-> "Flatten",    arg |-> "flatten"]
Dense(n)         == [layer |-> "Dense",      arg |-> n]
Activation(name) == [layer |-> "Activation", arg |-> name]
Dropout          == [layer |-> "Dropout",    arg |-> "dropout_rate"]

\* The block with the dropout put in front of the activation.
hidden_block_dropout_first(fc_nodes) ==
    << Dense(fc_nodes), Dropout, Activation("relu") >>

\* Dense(fc_nodes) ; Activation('relu') ; Dropout(rate=dropout_rate)
hidden_block(fc_nodes) ==
    << Dense(fc_nodes), Activation("relu"), Dropout >>

\* net = Flatten(name='flatten')(last_layer)
AddFlatten ==
    /\ mpc = "flatten"
    /\ net' = << FlattenLayer >>
    /\ mpc' = "hidden"
    /\ UNCHANGED <<fc_sizes, activation, mi, mexc>>
    /\ UNCHANGED <<keyVars, pipeVars, annoVars>>

\* One iteration of "for fc_nodes in fc_sizes[:-1]"
AddHidden ==
    /\ mpc = "hidden"
    /\ mi + 1 < Len(fc_sizes)
    /\ net' = net \o hidden_block(fc_sizes[mi + 1])
    /\ mi' = mi + 1
    /\ UNCHANGED <<fc_sizes, activation, mpc, mexc>>
    /\ UNCHANGED <<keyVars, pipeVars, annoVars>>

\* net = Dense(fc_sizes[-1])(net) ; out = Activation(activation, ...)(net)
\* fc_sizes[-1] of an empty list raises IndexError.
AddFinal ==
    /\ mpc = "hidden"
    /\ mi + 1 >= Len(fc_sizes)
    /\ IF fc_sizes = <<>>
       THEN /\ mpc' = "raised"
            /\ mexc' = "IndexError"
            /\ net' = net
       ELSE /\ net' = net \o << Dense(fc_sizes[Len(fc_sizes)]), Activation(activation) >>
            /\ mpc' = "done"
            /\ mexc' = mexc
    /\ UNCHANGED <<fc_sizes, activation, mi>>
    /\ UNCHANGED <<keyVars, pipeVars, annoVars>>

add_classification_block == AddFlatten \/ AddHidden \/ AddFinal

InitModelVars ==
    /\ fc_sizes = <<>>
    /\ activation = ""
    /\ mpc = "idle"
    /\ mi = 0
    /\ net = <<>>
    /\ mexc = "none"

----------------------------------------------------------------------------
(* Specification of the key resolvers: each is called once on a path.      *)

MaxPieces == 5

Pieces == { SLASH, <<"a">>, DOT \o JPG, JPG, LF }

Paths ==
    { Flatten(q) : q \in UNION { [1..n -> Pieces] : n \in 0..MaxPieces } }

InitKeys ==
    /\ fp \in Paths
    /\ uid = Unset
    /\ key = Unset
    /\ InitPipeVars /\ InitAnnoVars /\ InitModelVars

CallImageUid ==
    /\ uid = Unset
    /\ uid' = image_uid_from_fp(fp)
    /\ UNCHANGED <<fp, key, pipeVars, annoVars, modelVars>>

CallGetKey ==
    /\ key = Unset
    /\ key' = get_key_from_fp(fp)
    /\ UNCHANGED <<fp, uid, pipeVars, annoVars, modelVars>>

NextKeys == CallImageUid \/ CallGetKey

SpecKeys == InitKeys /\ [][NextKeys]_vars

----------------------------------------------------------------------------
(* Specification of the cropping pipeline: one run of main.                *)

InitPipeline ==
    /\ out_dir \in OutDirs
    /\ image_ids \in ImageLists
    /\ scene \in [DOMAIN image_ids -> Scenes]
    /\ pc = "start"
    /\ idx = 0
    /\ written = {}
    /\ log = <<>>
    /\ exc = <<>>
    /\ InitKeyVars /\ InitAnnoVars /\ InitModelVars

SpecPipeline == InitPipeline /\ [][main]_vars

----------------------------------------------------------------------------
(* Path shape, stated without the regular expressions.                     *)

SlashPositions(p) == { i \in 1..Len(p) : p[i] = "/" }

Max(S) == CHOOSE x \in S : \A y \in S : y <= x

HasLineBreak(p) == \E i \in 1..Len(p) : p[i] = "\n"

\* The path ends in .jpg and has at least two separators: .../p/i.jpg
HasKeyShape(p) == EndsWith(p, DOT \o JPG) /\ Cardinality(SlashPositions(p)) >= 2

\* p/i.jpg : what follows the last but one separator.
LastTwoSegments(p) ==
    LET last == Max(SlashPositions(p))
        prev == Max(SlashPositions(p) \ {last})
    IN SubSeq(p, prev + 1, Len(p))

----------------------------------------------------------------------------
(* Claims about the key resolvers (checked under SpecKeys)                 *)

\* C4 (as stated): on a path of the form .../p/i.jpg each resolver returns
\* the key made of the last two segments; on any other path each returns
\* None and raises nothing.
C4_ResolveKeyOrNone ==
    /\ uid # Unset =>
         IF HasKeyShape(fp)
         THEN uid \in {StrVal(LastTwoSegments(fp)), StrVal(SLASH \o LastTwoSegments(fp))}
         ELSE uid = None
    /\ key # Unset =>
         IF HasKeyShape(fp)
         THEN key = StrVal(LastTwoSegments(fp))
         ELSE key = None

\* C10 (as stated): the two resolvers succeed on the same paths and return
\* equal identity strings wherever both succeed.
C10_ResolversAgree ==
    (uid # Unset /\ key # Unset) =>
        /\ (uid.kind = "str") <=> (key.kind = "str")
        /\ (uid.kind = "str" /\ key.kind = "str") => uid.val = key.val

\* C10 (amended): on every path that ends in .jpg and holds no line break
\* the two resolvers succeed on the same paths, and the identity string of
\* image_uid_from_fp / main is the separator "/" followed by the key of
\* get_key_from_fp.
C10_AgreeUpToLeadingSlash ==
    (uid # Unset /\ key # Unset /\ EndsWith(fp, DOT \o JPG) /\ ~HasLineBreak(fp)) =>
        /\ (uid.kind = "str") <=> (key.kind = "str")
        /\ uid.kind = "str" => uid.val = SLASH \o key.val

\* Both resolvers have succeeded on a path .../a/a.jpg.
C10_Witness ==
    /\ uid.kind = "str" /\ key.kind = "str"
    /\ EndsWith(fp, <<"/", "a", "/", "a">> \o DOT \o JPG)

----------------------------------------------------------------------------
(* Claims about the cropping pipeline (checked under SpecPipeline)         *)

Entered == pc \in {"loop", "done"} \/ (pc = "raised" /\ exc # <<"AssertionError">>)

Finished == pc \in {"done", "raised"}

\* The exception that left main was raised while handling image k.
RaisedAt(k) == pc = "raised" /\ exc # <<"AssertionError">> /\ idx = k - 1

\* The loop body has run, fully or up to an exception, for image k.
Attempted(k) == Entered /\ (k <= idx \/ RaisedAt(k))

\* The skip warning was printed for image k.
Warned(k) ==
    \E i \in DOMAIN log : log[i] = [msg |-> "warning", arg |-> image_ids[k]]

\* Image k is recorded as failed, raised nothing to the caller of main, and
\* once main is over every image after it has been handled too.
SkippedAndContinued(k) ==
    /\ ~RaisedAt(k)
    /\ Warned(k)
    /\ Finished => \A j \in (k + 1)..Len(image_ids) : Attempted(j)

\* C1 (as stated): an image for which the detector returns no detection is
\* recorded as a failure, raises nothing to the caller of main, and every
\* image after it is still processed.
C1_NoFaceSkipped ==
    \A k \in DOMAIN image_ids :
        (Attempted(k) /\ scene[k] = "noface") => SkippedAndContinued(k)

\* C2 (as stated): an image whose path has fewer than two separators (its
\* key cannot be resolved) is recorded as a failure and the batch goes on.
\* (The key is looked up only after the crop succeeded, so the case is taken
\* with a crop that succeeds.)
C2_UnresolvableSkipped ==
    \A k \in DOMAIN image_ids :
        (Attempted(k) /\ ~HasKeyShape(image_ids[k]) /\ scene[k] = "face")
            => SkippedAndContinued(k)

\* C3 (as stated): an image whose crop raises ValueError is logged with its
\* path, raises nothing to the caller, and every remaining image is processed.
\* (Taken over the runs in which every image file can be opened.)
C3_ValueErrorSkipped ==
    (\A j \in DOMAIN image_ids : scene[j] # "unreadable") =>
    \A k \in DOMAIN image_ids :
        (Attempted(k) /\ scene[k] = "degenerate") => SkippedAndContinued(k)

\* The destinations of the images among the first n whose crop succeeded.
RECURSIVE CroppedDestinations(_)
CroppedDestinations(n) ==
    IF n = 0 THEN <<>>
    ELSE CroppedDestinations(n - 1) \o
         (IF scene[n] = "face"
          THEN << out_dir \o SLASH \o LastTwoSegments(image_ids[n]) >>
          ELSE <<>>)

WritingLines ==
    SelectSeq(log, LAMBDA l : l.msg = "writing")

\* C5 (as stated): in every state of a run the files written are exactly
\* out_dir/<personId>/<imageId>.jpg for the last two segments of the images
\* handled so far whose crop succeeded, one write per such image and none
\* for an image whose crop failed.
C5_WrittenKeysPreserved ==
    Entered =>
        /\ \A k \in 1..idx : scene[k] = "face" => HasKeyShape(image_ids[k])
        /\ written = { CroppedDestinations(idx)[i] :
                         i \in DOMAIN CroppedDestinations(idx) }
        /\ [i \in DOMAIN WritingLines |-> WritingLines[i].arg]
             = CroppedDestinations(idx)

\* The statement of C5 over the runs whose discovered paths hold no line break.
SingleLineKeysPreserved ==
    (\A k \in DOMAIN image_ids : ~HasLineBreak(image_ids[k]))
        => C5_WrittenKeysPreserved

----------------------------------------------------------------------------
(* Specification of the aggregation: one call of make_annotations_df on    *)
(* directory "A", with FLAGS.anno_dir set to "A" or to another directory.  *)

MaxFiles == 3

Dirs == {"A", "B"}

Name(stem, ext) == stem \o DOT \o ext

FileNames ==
    { Name(<<"1", "-", "x">>, TXT),        \* 1-x.txt
      Name(<<"2", "0", "-", "y">>, TXT),   \* 20-y.txt
      Name(<<"3", "-">>, TXT),             \* 3-.txt
      Name(<<"x">>, TXT),                  \* x.txt
      Name(<<".", "4", "-", "h">>, TXT),   \* .4-h.txt
      Name(<<"5", "-", "z">> \o LF, TXT), \* 5-z<LF>.txt
      Name(<<"1", "-", "x">>, <<"c", "s", "v">>) }   \* 1-x.csv

HeaderLine == <<"", "value">>

FileContents ==
    { <<HeaderLine, <<"r1", "1">> >>,
      <<HeaderLine, <<"r2", "0">> >>,
      <<HeaderLine, <<"r1", "0">>, <<"r2", "1">> >> }

DirContents ==
    UNION { [S -> FileContents] :
              S \in { T \in SUBSET FileNames : Cardinality(T) <= MaxFiles } }

\* What the other directory may hold.
OtherDirContents ==
    { <<>>,
      [f \in { Name(<<"1", "-", "x">>, TXT) } |-> <<HeaderLine, <<"r3", "1">> >>],
      [f \in { Name(<<"1", "-", "x">>, TXT), Name(<<"2", "0", "-", "y">>, TXT) }
           |-> <<HeaderLine, <<"r1", "1">> >>] }

InitAnno ==
    /\ disk \in { d \in [Dirs -> DirContents \cup OtherDirContents] :
                    d["A"] \in DirContents /\ d["B"] \in OtherDirContents }
    /\ anno_dir = "A"
    /\ flag_anno_dir \in Dirs
    /\ listing \in { q \in [1..Cardinality(DOMAIN disk[anno_dir]) -> DOMAIN disk[anno_dir]] :
                       Injective(q) }
    /\ apc = "loop"
    /\ ai = 0
    /\ annotations = <<>>
    /\ result = Unset
    /\ InitKeyVars /\ InitPipeVars /\ InitModelVars

SpecAnno == InitAnno /\ [][make_annotations_df]_vars

----------------------------------------------------------------------------
(* Claims about the aggregation (checked under SpecAnno)                   *)

AnnoOver == apc \in {"done", "raised"}

\* The files of the listed directory that pass the filter, in listing order.
SelectedFiles == SelectSeq(listing, LAMBDA f : ~StartsWith(f, DOT) /\ EndsWith(f, DOT \o TXT))

\* The name begins with one or more digits followed by "-".
HasNumericPrefix(f) ==
    \E n \in 1..(Len(f) - 1) :
        /\ \A i \in 1..n : IsDigit(f[i])
        /\ f[n + 1] = "-"

\* What stands between the numeric prefix and the suffix .txt.
LabelName(f) ==
    LET n == CHOOSE n \in 1..(Len(f) - 1) :
                 (\A i \in 1..n : IsDigit(f[i])) /\ f[n + 1] = "-"
    IN SubSeq(f, n + 2, Len(f) - 4)

\* The row indices of a file of the listed directory (the lines below its header).
Indices(f) ==
    { disk[anno_dir][f][i][1] : i \in 2..Len(disk[anno_dir][f]) }

ValueIn(f, r) ==
    (CHOOSE l \in { disk[anno_dir][f][i] : i \in 2..Len(disk[anno_dir][f]) } : l[1] = r)[2]

\* C6 (as stated): for N >= 1 well-named files the table's rows are the union
\* of the files' indices, it has one column per file named by the file's
\* label, and a cell whose row is not in its column's file holds the marker.
C6_UnionOfIndices ==
    ( /\ AnnoOver
      /\ Len(SelectedFiles) >= 1
      /\ \A j \in DOMAIN SelectedFiles : HasNumericPrefix(SelectedFiles[j]) )
    =>
    /\ result.kind = "table"
    /\ result.val.index = UNION { Indices(SelectedFiles[j]) : j \in DOMAIN SelectedFiles }
    /\ result.val.columns = [ j \in DOMAIN SelectedFiles |-> LabelName(SelectedFiles[j]) ]
    /\ \A r \in result.val.index : \A j \in DOMAIN SelectedFiles :
          r \notin Indices(SelectedFiles[j]) => result.val.data[r][j] = NaN

\* C9 (as stated): what is read for each selected name is the file of that
\* name in the listed directory, so the table is determined by that
\* directory alone.
C9_ReadsListedDirectory ==
    AnnoOver =>
    /\ result # Raise(<<"FileNotFoundError">>)
    /\ result.kind = "table" =>
         \A j \in DOMAIN SelectedFiles :
             /\ \A r \in Indices(SelectedFiles[j]) :
                  /\ r \in result.val.index
                  /\ result.val.data[r][j] = ValueIn(SelectedFiles[j], r)
             /\ \A r \in result.val.index \ Indices(SelectedFiles[j]) :
                  result.val.data[r][j] = NaN

\* C7 (as stated): a selected file whose name has no numeric prefix or no
\* label name makes the aggregation fail and return no table.
C7_MalformedOrUnlabelledFails ==
    ( /\ AnnoOver
      /\ \E j \in DOMAIN SelectedFiles :
            \/ ~HasNumericPrefix(SelectedFiles[j])
            \/ LabelName(SelectedFiles[j]) = <<>> )
    => result.kind = "raise"

\* C7 (amended): a selected file whose name does not begin with digits and
\* "-" makes the aggregation fail and return no table (an empty label name,
\* as in 3-.txt, is accepted); a returned table has one column for every
\* selected file; and an error is raised only at a selected file, never at
\* a hidden file or one without the suffix .txt (or by the concatenation,
\* when no file at all was selected).
C7_MalformedFailsAllOrNothing ==
    AnnoOver =>
    /\ (\E j \in DOMAIN SelectedFiles : ~HasNumericPrefix(SelectedFiles[j]))
          => result.kind = "raise"
    /\ result.kind = "table" =>
          /\ Len(result.val.columns) = Len(SelectedFiles)
          /\ \A j \in DOMAIN SelectedFiles :
                /\ HasNumericPrefix(SelectedFiles[j])
                /\ result.val.columns[j] = LabelName(SelectedFiles[j])
    /\ result.kind = "raise" =>
          \/ /\ result = Raise(<<"ValueError">>)
             /\ SelectedFiles = <<>>
          \/ /\ ai < Len(listing)
             /\ ~StartsWith(listing[ai + 1], DOT)
             /\ EndsWith(listing[ai + 1], DOT \o TXT)
             /\ result = Raise(<<"AttributeError">>)
                  => (~HasNumericPrefix(listing[ai + 1]) \/ HasLineBreak(listing[ai + 1]))

\* The aggregation failed at a malformed name after a well-named file had
\* been read and a hidden file had been passed over.
C7_Witness ==
    /\ apc = "raised"
    /\ result = Raise(<<"AttributeError">>)
    /\ annotations # <<>>
    /\ \E i \in 1..ai : StartsWith(listing[i], DOT)

\* With FLAGS.anno_dir naming the listed directory, the statement of C6.
SameDirUnionOfIndices ==
    ( /\ flag_anno_dir = anno_dir
      /\ \A j \in DOMAIN SelectedFiles : ~HasLineBreak(SelectedFiles[j]) )
    => C6_UnionOfIndices

SameDirReads == (flag_anno_dir = anno_dir) => C9_ReadsListedDirectory

----------------------------------------------------------------------------
(* Specification of the classification block: one call of                  *)
(* add_classification_block.                                               *)

MaxFc == 3

Widths == {2, 256, 4096}

ActivationNames == {"sigmoid", "softmax"}

InitModel ==
    /\ fc_sizes \in UNION { [1..n -> Widths] : n \in 0..MaxFc }
    /\ activation \in ActivationNames
    /\ mpc = "flatten"
    /\ mi = 0
    /\ net = <<>>
    /\ mexc = "none"
    /\ InitKeyVars /\ InitPipeVars /\ InitAnnoVars

SpecModel == InitModel /\ [][add_classification_block]_vars

\* C8: for a non-empty fc_sizes of length n the layers put on top of the
\* base layer are one flatten, then for each width but the last a dense
\* layer of that width, an activation and a dropout, then a dense layer of
\* the last width and the named output activation; there are n - 1 dropout
\* layers and none after the output layer.
C8_BlockLayout ==
    (mpc = "done" /\ fc_sizes # <<>>) =>
    LET n == Len(fc_sizes) IN
    /\ Len(net) = 3 * n
    /\ net[1].layer = "Flatten"
    /\ \A i \in 1..Len(net) : net[i].layer = "Flatten" => i = 1
    /\ \A i \in 1..(n - 1) :
          /\ net[3 * i - 1] = [layer |-> "Dense", arg |-> fc_sizes[i]]
          /\ net[3 * i].layer = "Activation"
          /\ net[3 * i + 1].layer = "Dropout"
    /\ net[3 * n - 1] = [layer |-> "Dense", arg |-> fc_sizes[n]]
    /\ net[3 * n] = [layer |-> "Activation", arg |-> activation]
    /\ Cardinality({ i \in 1..Len(net) : net[i].layer = "Dropout" }) = n - 1

\* A finished block with two hidden widths and an output width.
C8_Witness ==
    /\ mpc = "done"
    /\ Len(fc_sizes) = 3
    /\ fc_sizes[1] # fc_sizes[2]

====
